---- MODULE Spec2Model ----
(***************************************************************************)
(* Model of the jitsi-slack slash-command handler (handlers.go), the       *)
(* meeting generator and the personalised invite delivery                  *)
(* (slack_messages.go).                                                    *)
(*                                                                         *)
(* Strings that the code inspects character by character (the command     *)
(* text, hosts, URLs, user ids) are sequences of one-character strings, so *)
(* that the regular expressions, strings.Split, strings.Trim,              *)
(* strings.ToLower and fmt.Sprintf are computed as the code computes them. *)
(***************************************************************************)
EXTENDS Integers, Sequences, FiniteSets, TLC

(***************************************************************************)
(* Bounds of the model.                                                    *)
(***************************************************************************)
\* most words of a command text built from the command words
MaxCmdWords == 2
\* most atoms of a command text built from the mention atoms
MaxMentionAtoms == 2

(***************************************************************************)
(* String literals of the program.                                         *)
(***************************************************************************)
cHelp == <<"h", "e", "l", "p">>
cServer == <<"s", "e", "r", "v", "e", "r">>
cDefault == <<"d", "e", "f", "a", "u", "l", "t">>
cOpenHttp == <<"<", "h", "t", "t", "p">>
cSchemeSep == <<":", "/", "/">>
cJwtQuery == <<"?", "j", "w", "t", "=">>
DefaultServer == <<"h", "t", "t", "p", "s", ":", "/", "/", "m", "e", "e", "t", ".", "j", "i", "t", ".", "s", "i">>
SP == " "
\* the characters Go's regexp class \s matches
Whitespace == {" ", "\t", "\n", "\f", "\r"}
\* the cutset of strings.Trim(host, "<>")
TrimCutset == {"<", ">"}
\* the characters excluded by the class [^>|] of atMentionRE
MentionStop == {">", "|"}

errInvalidAuth == "invalid_auth"
errInactiveAccount == "account_inactive"
errMissingAuthToken == "not_authed"

StatusOK == 200
StatusUnauthorized == 401
StatusInternalServerError == 500
StatusFound == 302

(***************************************************************************)
(* String functions of the Go library, as the code uses them.              *)
(***************************************************************************)
\* s[from..] (1-based), the empty string when from is past the end
Drop(s, from) == SubSeq(s, from, Len(s))

\* regexp `^lit`: MatchString is true iff the text starts with lit
HasPrefix(s, p) == Len(s) >= Len(p) /\ SubSeq(s, 1, Len(p)) = p

\* strings.Split(s, " "): the pieces between single space characters
RECURSIVE SplitFrom(_, _, _)
SplitFrom(s, i, cur) ==
    IF i > Len(s) THEN <<cur>>
    ELSE IF s[i] = SP THEN <<cur>> \o SplitFrom(s, i + 1, <<>>)
    ELSE SplitFrom(s, i + 1, Append(cur, s[i]))

Split(s) == SplitFrom(s, 1, <<>>)

\* strings.Trim(s, "<>"): drop every leading and trailing '<' and '>'
RECURSIVE TrimLeft(_)
TrimLeft(s) ==
    IF s # <<>> /\ s[1] \in TrimCutset THEN TrimLeft(Drop(s, 2)) ELSE s

RECURSIVE TrimRight(_)
TrimRight(s) ==
    IF s # <<>> /\ s[Len(s)] \in TrimCutset
    THEN TrimRight(SubSeq(s, 1, Len(s) - 1)) ELSE s

Trim(s) == TrimRight(TrimLeft(s))

\* strings.ToLower on the letters the model's team names use
LowerChar(c) ==
    CASE c = "A" -> "a"
      [] c = "B" -> "b"
      [] c = "C" -> "c"
      [] OTHER -> c

ToLower(s) == [k \in 1..Len(s) |-> LowerChar(s[k])]

\* length of the longest run of characters of s, from position i, that are
\* not in the set stop
RECURSIVE RunLen(_, _, _)
RunLen(s, i, stop) ==
    IF i > Len(s) \/ s[i] \in stop THEN 0 ELSE 1 + RunLen(s, i + 1, stop)

\* length of the longest run of characters of s, from position i, that are
\* in the set class
RECURSIVE SpanLen(_, _, _)
SpanLen(s, i, class) ==
    IF i > Len(s) \/ s[i] \notin class THEN 0 ELSE 1 + SpanLen(s, i + 1, class)

(***************************************************************************)
(* serverConfigRE = `^server\s+(<https?:\/\/\S+>)`.                        *)
(* ServerConfigSubmatch(text) is <<capture>> when the text matches and     *)
(* <<>> when it does not. \s+ is followed by '<', so it takes the whole    *)
(* run of whitespace; \S+ is greedy, so the capture ends at the last '>'   *)
(* of the run of non-whitespace characters that has a character before it. *)
(***************************************************************************)
\* position where the \S+ part starts when "<http", optional "s", "://"
\* match from position p; 0 when they do not
SchemeEnd(text, p) ==
    IF ~HasPrefix(Drop(text, p), cOpenHttp) THEN 0
    ELSE LET q == p + Len(cOpenHttp)
         IN  IF HasPrefix(Drop(text, q), <<"s">> \o cSchemeSep) THEN q + 1 + Len(cSchemeSep)
             ELSE IF HasPrefix(Drop(text, q), cSchemeSep) THEN q + Len(cSchemeSep)
             ELSE 0

\* the last position of '>' in text[from..to], 0 when there is none
RECURSIVE LastClose(_, _, _)
LastClose(text, from, to) ==
    IF to < from THEN 0
    ELSE IF text[to] = ">" THEN to
    ELSE LastClose(text, from, to - 1)

ServerConfigSubmatch(text) ==
    IF ~HasPrefix(text, cServer) THEN <<>>
    ELSE LET gap == SpanLen(text, Len(cServer) + 1, Whitespace)
             p == Len(cServer) + 1 + gap
             q == SchemeEnd(text, p)
             run == RunLen(text, q, Whitespace)
             close == LastClose(text, q + 1, q + run - 1)
         IN  IF gap = 0 \/ q = 0 \/ close = 0 THEN <<>>
             ELSE <<SubSeq(text, p, close)>>

(***************************************************************************)
(* atMentionRE = `<@([^>|]+)`, FindAllStringSubmatch(text, -1): the        *)
(* captures of the successive non-overlapping matches, left to right.      *)
(***************************************************************************)
\* the captures without the repeated ones: each user once
RECURSIVE FindAllMentionsOnce(_, _)
FindAllMentionsOnce(text, i) ==
    IF i + 2 > Len(text) THEN <<>>
    ELSE IF text[i] = "<" /\ text[i + 1] = "@" /\ text[i + 2] \notin MentionStop
         THEN LET n == RunLen(text, i + 2, MentionStop)
                  id == SubSeq(text, i + 2, i + 1 + n)
                  rest == FindAllMentionsOnce(text, i + 2 + n)
              IN  <<id>> \o SelectSeq(rest, LAMBDA x : x # id)
         ELSE FindAllMentionsOnce(text, i + 1)

RECURSIVE FindAllMentions(_, _)
FindAllMentions(text, i) ==
    IF i + 2 > Len(text) THEN <<>>
    ELSE IF text[i] = "<" /\ text[i + 1] = "@" /\ text[i + 2] \notin MentionStop
         THEN LET n == RunLen(text, i + 2, MentionStop)
              IN  <<SubSeq(text, i + 2, i + 1 + n)>> \o FindAllMentions(text, i + 2 + n)
         ELSE FindAllMentions(text, i + 1)

(***************************************************************************)
(* Inputs: workspaces, users, command texts, request headers.              *)
(***************************************************************************)
Teams == {"T1", "T2"}
\* the form value team_domain of each workspace
TeamDomain(t) == IF t = "T1" THEN <<"A", "b">> ELSE <<"c">>
cU1 == <<"U", "1">>
cU2 == <<"U", "2">>
cU9 == <<"U", "9">>
cUrlX == <<"<", "h", "t", "t", "p", "s", ":", "/", "/", "x", ">">>
cMentionU1 == <<"<", "@", "U", "1", ">">>
cMentionU2 == <<"<", "@", "U", "2", "|", "b", ">">>
RoomNames == {<<"r", "1">>, <<"r", "2">>}

CmdWords == {cHelp, cServer, cDefault, cUrlX}
CmdSeps == {<<>>, <<" ">>, <<" ", " ">>, <<"\t">>}
MentionAtoms == {cMentionU1, cMentionU2, <<" ">>}

\* the texts of exactly n command words, any separator between two words
RECURSIVE CmdTextsOf(_)
CmdTextsOf(n) ==
    IF n = 0 THEN {<<>>}
    ELSE IF n = 1 THEN CmdWords
    ELSE {t \o s \o w : t \in CmdTextsOf(n - 1), s \in CmdSeps, w \in CmdWords}

\* the texts of exactly n mention atoms
RECURSIVE MentionTextsOf(_)
MentionTextsOf(n) ==
    IF n = 0 THEN {<<>>}
    ELSE {t \o a : t \in MentionTextsOf(n - 1), a \in MentionAtoms}

CmdTexts == UNION {CmdTextsOf(n) : n \in 0..MaxCmdWords}
MentionTexts == UNION {MentionTextsOf(n) : n \in 0..MaxMentionAtoms}

\* the form-encoded request bodies
BodiesOf(texts) ==
    {[text |-> x, team_id |-> t, team_domain |-> TeamDomain(t), user_id |-> cU9] :
        x \in texts, t \in Teams}

Bodies == BodiesOf(CmdTexts)
MentionBodies == BodiesOf(MentionTexts)

SlackSigningSecret == "secret"
SharableURL == "https://install"

\* HMAC-SHA256 as an injective function of the key and the message
Hmac(key, msg) == <<key, msg>>
\* the signature header of a request signed with key at timestamp ts
Sign(key, ts, body) == <<"v0=", Hmac(key, <<"v0:", ts, ":", body>>)>>
ValidRequest(secret, body, ts, sig) == sig = Sign(secret, ts, body)

\* the timestamp headers a request may carry ("" is a missing header)
TimestampHeaders == {"", "1"}
\* the signature headers a request with this body may carry (<<>> is a
\* missing header): signed well, with another key, for another timestamp,
\* for another body
SignatureHeaders(body) ==
    {<<>>, Sign(SlackSigningSecret, "1", body), Sign("other", "1", body),
     Sign(SlackSigningSecret, "2", body),
     Sign(SlackSigningSecret, "1", [body EXCEPT !.user_id = cU1])}

\* error strings of the chat platform, of the stores and of the signer
SlackErrors == {errInvalidAuth, errInactiveAccount, errMissingAuthToken, "ratelimited"}
StoreErrors == {"unavailable"}
NoErr == ""

(***************************************************************************)
(* State.                                                                  *)
(***************************************************************************)
VARIABLES
    inv,         \* the slash-command invocations, by goroutine
    cfgStore,    \* the server-config store: workspace -> override host
    tokenStore,  \* the token store: workspace -> bot token
    oauth        \* the OAuth callback in progress

vars == <<inv, cfgStore, tokenStore, oauth>>

\* the invocations that may be in progress at once: net/http runs each request
\* in a goroutine of its own
Invocations == {1, 2}
\* one request at a time
Serial == {1}
NoOverride == <<>>
NoToken == ""

NoRequest == [ts |-> "", sig |-> <<>>, body |-> [text |-> <<>>, team_id |-> "", team_domain |-> <<>>, user_id |-> <<>>]]
\* Meeting{}: the zero value
EmptyMeeting == [RoomName |-> <<>>, URL |-> <<>>, Host |-> <<>>, AuthenticatedURL |-> "nil", teamID |-> "", teamName |-> <<>>]
NoBody == [kind |-> "none", host |-> <<>>, url |-> <<>>]

Idle ==
    [pc |-> "idle", req |-> NoRequest, intent |-> "none", status |-> <<>>,
     body |-> NoBody, meeting |-> EmptyMeeting, matches |-> <<>>, idx |-> 0,
     token |-> NoToken, calls |-> <<>>]

\* the zero value of accessResponse
NoAccess ==
    [OK |-> FALSE, AccessToken |-> "", UserID |-> "", TeamID |-> "",
     Bot |-> [BotUserID |-> "", BotAccessToken |-> ""]]

\* the OAuth callback before a request; before is the token store as the
\* request found it
AuthIdle ==
    [pc |-> "idle", query |-> <<>>, code |-> "", access |-> NoAccess, status |-> <<>>,
     location |-> <<>>, calls |-> <<>>, before |-> <<>>]

Init ==
    /\ oauth = AuthIdle
    /\ inv = [i \in Invocations |-> Idle]
    /\ cfgStore = [t \in Teams |-> NoOverride]
    /\ tokenStore = [t \in Teams |-> IF t = "T1" THEN "xoxb-1" ELSE NoToken]

(***************************************************************************)
(* Responses.                                                              *)
(***************************************************************************)
\* w.WriteHeader(code) followed by the body written after it
Respond(r, code, body) ==
    [r EXCEPT !.pc = "done", !.status = Append(@, code), !.body = body]

\* help(w)
help(r) == Respond(r, StatusOK, [NoBody EXCEPT !.kind = "help"])
\* install(w, sharableURL)
install(r) == Respond(r, StatusOK, [NoBody EXCEPT !.kind = "install"])

(***************************************************************************)
(* handleRequestValidation and the command routing of Jitsi.               *)
(***************************************************************************)
\* handleRequestValidation without the check of the signature
handleRequestValidationNoCheck(req, readOk) ==
    IF req.ts = "" \/ req.sig = <<>> THEN StatusUnauthorized
    ELSE IF ~readOk THEN StatusInternalServerError
    ELSE 0

\* the status handleRequestValidation writes, 0 when it returns true;
\* readOk is the outcome of ioutil.ReadAll(r.Body)
handleRequestValidation(req, readOk) ==
    IF req.ts = "" \/ req.sig = <<>> THEN StatusUnauthorized
    ELSE IF ~readOk THEN StatusInternalServerError
    ELSE IF ~ValidRequest(SlackSigningSecret, req.body, req.ts, req.sig) THEN StatusUnauthorized
    ELSE 0

\* the calls handleRequestValidation makes: the body is read only when both
\* headers are there
ValidationCalls(req, readOk) ==
    IF req.ts = "" \/ req.sig = <<>> THEN <<>>
    ELSE <<[op |-> "ReadAll", ok |-> readOk]>>

\* the routing without the help branch
RouteNoHelp(text) ==
    IF HasPrefix(text, cServer) THEN "configureServer"
    ELSE "dispatchInvites"

\* the branch Jitsi takes for a command text
Route(text) ==
    IF HasPrefix(text, cHelp) THEN "help"
    ELSE IF HasPrefix(text, cServer) THEN "configureServer"
    ELSE "dispatchInvites"

\* the handler, for one request and the outcomes of reading the body and
\* of r.ParseForm()
Jitsi(i, req, readOk, parseOk) ==
    LET r0 == [inv[i] EXCEPT !.req = req, !.calls = ValidationCalls(req, readOk)]
        v == handleRequestValidation(req, readOk)
        r1 == [r0 EXCEPT !.calls = Append(@, [op |-> "ParseForm", ok |-> parseOk])]
    IN  inv' = [inv EXCEPT ![i] =
            IF v # 0 THEN Respond(r0, v, NoBody)
            ELSE IF ~parseOk THEN Respond(r1, StatusInternalServerError, NoBody)
            ELSE IF Route(req.body.text) = "help" THEN help([r1 EXCEPT !.intent = "help"])
            ELSE [r1 EXCEPT !.intent = Route(req.body.text), !.pc = Route(req.body.text)]]

\* any request arrives: any command text, any headers
Request(i) ==
    /\ inv[i].pc = "idle"
    /\ \E b \in Bodies, ts \in TimestampHeaders, readOk \in BOOLEAN, parseOk \in BOOLEAN :
       \E sig \in SignatureHeaders(b) :
         Jitsi(i, [ts |-> ts, sig |-> sig, body |-> b], readOk, parseOk)
    /\ UNCHANGED <<cfgStore, tokenStore, oauth>>

\* a request of the chat platform arrives whose text is made of mentions
InviteRequest(i) ==
    /\ inv[i].pc = "idle"
    /\ \E b \in MentionBodies :
         Jitsi(i, [ts |-> "1", sig |-> Sign(SlackSigningSecret, "1", b), body |-> b], TRUE, TRUE)
    /\ UNCHANGED <<cfgStore, tokenStore, oauth>>

(***************************************************************************)
(* configureServer.                                                        *)
(***************************************************************************)
\* what configureServer decides from the text, before it calls the store:
\* "panic" is the run-time panic of configuration[1] on a one-element slice
ServerIntent(text) ==
    LET configuration == Split(text)
    IN  IF Len(configuration) < 2 THEN [kind |-> "panic", host |-> <<>>]
        ELSE IF configuration[2] = cDefault THEN [kind |-> "default", host |-> <<>>]
        ELSE IF ServerConfigSubmatch(text) = <<>> THEN [kind |-> "instruct", host |-> <<>>]
        ELSE [kind |-> "store", host |-> Trim(ServerConfigSubmatch(text)[1])]

configureServer(i) ==
    /\ inv[i].pc = "configureServer"
    /\ LET r == inv[i]
           teamID == r.req.body.team_id
           c == ServerIntent(r.req.body.text)
       IN  \E err \in {NoErr} \cup StoreErrors :
             CASE c.kind = "panic" ->
                    /\ err = NoErr
                    /\ inv' = [inv EXCEPT ![i] = [r EXCEPT !.pc = "panic"]]
                    /\ UNCHANGED cfgStore
               [] c.kind = "default" ->
                    LET r1 == [r EXCEPT !.calls = Append(@, [op |-> "Remove", team |-> teamID, err |-> err])]
                    IN  IF err # NoErr
                        THEN /\ inv' = [inv EXCEPT ![i] = Respond(r1, StatusInternalServerError, NoBody)]
                             /\ UNCHANGED cfgStore
                        ELSE /\ inv' = [inv EXCEPT ![i] = Respond(r1, StatusOK, [NoBody EXCEPT !.kind = "defaulted"])]
                             /\ cfgStore' = [cfgStore EXCEPT ![teamID] = NoOverride]
               [] c.kind = "instruct" ->
                    /\ err = NoErr
                    /\ inv' = [inv EXCEPT ![i] = Respond(r, StatusOK, [NoBody EXCEPT !.kind = "instruct"])]
                    /\ UNCHANGED cfgStore
               [] c.kind = "store" ->
                    LET r1 == [r EXCEPT !.calls = Append(@, [op |-> "Store", team |-> teamID, host |-> c.host, err |-> err])]
                    IN  IF err # NoErr
                        THEN /\ inv' = [inv EXCEPT ![i] = Respond(r1, StatusInternalServerError, NoBody)]
                             /\ UNCHANGED cfgStore
                        ELSE /\ inv' = [inv EXCEPT ![i] = Respond(r1, StatusOK, [NoBody EXCEPT !.kind = "configured", !.host = c.host])]
                             /\ cfgStore' = [cfgStore EXCEPT ![teamID] = c.host]
    /\ UNCHANGED <<tokenStore, oauth>>

(***************************************************************************)
(* MeetingGenerator.New and the Meeting's AuthenticatedURL.                *)
(***************************************************************************)
ZeroCfg == [Server |-> <<>>, TenantScopedURLs |-> FALSE, AuthenticatedURLSupport |-> FALSE]

\* ServerConfigReader.Get(teamID): the override or the default server, with
\* the workspace's settings, or an error
GetResults(store, teamID) ==
    {[cfg |-> [Server |-> IF store[teamID] = NoOverride THEN DefaultServer ELSE store[teamID],
               TenantScopedURLs |-> ten, AuthenticatedURLSupport |-> auth],
      err |-> NoErr] : ten \in BOOLEAN, auth \in BOOLEAN}
      \cup {[cfg |-> ZeroCfg, err |-> e] : e \in StoreErrors}

\* fmt.Sprintf("%s/%s", a, b)
Slash(a, b) == a \o <<"/">> \o b

\* New without strings.ToLower
NewNoLower(teamID, teamName, roomName, get) ==
    IF get.err # NoErr THEN [mtg |-> EmptyMeeting, err |-> get.err]
    ELSE [mtg |-> [RoomName |-> roomName,
                   Host |-> get.cfg.Server,
                   URL |-> IF get.cfg.TenantScopedURLs
                           THEN Slash(Slash(get.cfg.Server, teamName), roomName)
                           ELSE Slash(get.cfg.Server, roomName),
                   AuthenticatedURL |-> IF get.cfg.AuthenticatedURLSupport THEN "jwt" ELSE "plain",
                   teamID |-> teamID,
                   teamName |-> teamName],
          err |-> NoErr]

\* New(teamID, teamName), for the name RandomName() gave and the result of
\* ServerConfigReader.Get
New(teamID, teamName, roomName, get) ==
    IF get.err # NoErr THEN [mtg |-> EmptyMeeting, err |-> get.err]
    ELSE [mtg |-> [RoomName |-> roomName,
                   Host |-> get.cfg.Server,
                   URL |-> IF get.cfg.TenantScopedURLs
                           THEN Slash(Slash(get.cfg.Server, ToLower(teamName)), roomName)
                           ELSE Slash(get.cfg.Server, roomName),
                   AuthenticatedURL |-> IF get.cfg.AuthenticatedURLSupport THEN "jwt" ELSE "plain",
                   teamID |-> teamID,
                   teamName |-> teamName],
          err |-> NoErr]

\* a claim set whose room claim is the workspace's name
JWTInputTenantRoom(mtg, userID, userName, avatarURL) ==
    [TenantID |-> mtg.teamID, TenantName |-> mtg.teamName, RoomClaim |-> mtg.teamName,
     UserID |-> userID, UserName |-> userName, AvatarURL |-> avatarURL]

\* the claim set the "jwt" closure submits
JWTInput(mtg, userID, userName, avatarURL) ==
    [TenantID |-> mtg.teamID, TenantName |-> mtg.teamName, RoomClaim |-> mtg.RoomName,
     UserID |-> userID, UserName |-> userName, AvatarURL |-> avatarURL]

\* MeetingTokenGenerator.CreateJWT: the token signed for a claim set
CreateJWT(input) == <<"j">> \o input.UserID \o input.RoomClaim

\* a capability that signs whatever the server supports
AuthenticatedURLAlwaysSigns(mtg, userID, userName, avatarURL, signErr) ==
    LET input == JWTInput(mtg, userID, userName, avatarURL)
        call == <<[op |-> "CreateJWT", input |-> input, err |-> signErr]>>
    IN  IF signErr # NoErr THEN [url |-> <<>>, err |-> signErr, calls |-> call]
        ELSE [url |-> mtg.URL \o cJwtQuery \o CreateJWT(input), err |-> NoErr, calls |-> call]

\* a closure that reads the host of the workspace when it is called
AuthenticatedURLLateHost(mtg, userID, userName, avatarURL, signErr) ==
    LET host == IF cfgStore[mtg.teamID] = NoOverride THEN DefaultServer ELSE cfgStore[mtg.teamID]
        base == host \o Drop(mtg.URL, Len(mtg.Host) + 1)
        input == JWTInput(mtg, userID, userName, avatarURL)
        call == <<[op |-> "CreateJWT", input |-> input, err |-> signErr]>>
    IN  IF mtg.AuthenticatedURL # "jwt" THEN [url |-> base, err |-> NoErr, calls |-> <<>>]
        ELSE IF signErr # NoErr THEN [url |-> <<>>, err |-> signErr, calls |-> call]
        ELSE [url |-> base \o cJwtQuery \o CreateJWT(input), err |-> NoErr, calls |-> call]

\* mtg.AuthenticatedURL(userID, userName, avatarURL); signErr is the error
\* of CreateJWT, which only the "jwt" closure calls
AuthenticatedURL(mtg, userID, userName, avatarURL, signErr) ==
    IF mtg.AuthenticatedURL = "jwt"
    THEN LET input == JWTInput(mtg, userID, userName, avatarURL)
             call == <<[op |-> "CreateJWT", input |-> input, err |-> signErr]>>
         IN  IF signErr # NoErr THEN [url |-> <<>>, err |-> signErr, calls |-> call]
             ELSE [url |-> mtg.URL \o cJwtQuery \o CreateJWT(input), err |-> NoErr, calls |-> call]
    ELSE [url |-> mtg.URL, err |-> NoErr, calls |-> <<>>]

(***************************************************************************)
(* sendPersonalizedInvite and joinPersonalMeetingMsg.                      *)
(***************************************************************************)
SignErrors == {"signing failed"}

\* slackClient.GetUserInfo(userID), when it succeeds
UserInfo(userID) == [ID |-> userID, Name |-> <<"n">> \o userID, Image192 |-> <<"a">> \o userID]
\* slackClient.OpenConversation for one user, when it succeeds
Channel(userID) == [ID |-> <<"D">> \o userID]

\* the outcomes of the calls of one invite: the error of each call, where a
\* call after a failed one is not made
InviteOutcomes ==
    {o \in [lookup : {NoErr} \cup SlackErrors, sign : {NoErr} \cup SignErrors,
            open : {NoErr} \cup SlackErrors, post : {NoErr} \cup SlackErrors] :
        /\ o.lookup # NoErr => o.sign = NoErr /\ o.open = NoErr /\ o.post = NoErr
        /\ o.sign # NoErr => o.open = NoErr /\ o.post = NoErr
        /\ o.open # NoErr => o.post = NoErr}

\* an invite that falls back to the base URL when the derivation fails
sendPersonalizedInvitePostsBase(hostID, userID, mtg, o) ==
    LET lookup == <<[op |-> "GetUserInfo", user |-> userID, err |-> o.lookup]>>
        userInfo == UserInfo(userID)
        au == AuthenticatedURL(mtg, userInfo.ID, userInfo.Name, userInfo.Image192, o.sign)
        open == <<[op |-> "OpenConversation", user |-> userID, err |-> NoErr]>>
        post == <<[op |-> "PostMessage", channel |-> Channel(userID).ID,
                   url |-> IF au.err # NoErr THEN mtg.URL ELSE au.url,
                   title |-> [from |-> hostID, host |-> mtg.Host], err |-> o.post]>>
    IN  IF o.lookup # NoErr THEN [err |-> o.lookup, calls |-> lookup]
        ELSE IF au.err # NoErr THEN [err |-> o.post, calls |-> lookup \o au.calls \o open \o post]
        ELSE IF o.open # NoErr THEN [err |-> o.open, calls |-> lookup \o au.calls \o open]
        ELSE [err |-> o.post, calls |-> lookup \o au.calls \o open \o post]

sendPersonalizedInvite(hostID, userID, mtg, o) ==
    LET lookup == <<[op |-> "GetUserInfo", user |-> userID, err |-> o.lookup]>>
        userInfo == UserInfo(userID)
        au == AuthenticatedURL(mtg, userInfo.ID, userInfo.Name, userInfo.Image192, o.sign)
        open == <<[op |-> "OpenConversation", user |-> userID, err |-> o.open]>>
        post == <<[op |-> "PostMessage", channel |-> Channel(userID).ID, url |-> au.url,
                   title |-> [from |-> hostID, host |-> mtg.Host], err |-> o.post]>>
    IN  IF o.lookup # NoErr THEN [err |-> o.lookup, calls |-> lookup]
        ELSE IF au.err # NoErr THEN [err |-> au.err, calls |-> lookup \o au.calls]
        ELSE IF o.open # NoErr THEN [err |-> o.open, calls |-> lookup \o au.calls \o open]
        ELSE [err |-> o.post, calls |-> lookup \o au.calls \o open \o post]

\* a confirmation that derives the caller's URL before the lookup
joinPersonalMeetingMsgSignsFirst(userID, mtg, o) ==
    LET lookup == <<[op |-> "GetUserInfo", user |-> userID, err |-> o.lookup]>>
        userInfo == UserInfo(userID)
        au == AuthenticatedURL(mtg, userInfo.ID, userInfo.Name, userInfo.Image192, o.sign)
    IN  IF au.err # NoErr THEN [resp |-> [NoBody EXCEPT !.kind = "empty"], err |-> au.err, calls |-> au.calls]
        ELSE IF o.lookup # NoErr THEN [resp |-> [NoBody EXCEPT !.kind = "empty"], err |-> o.lookup, calls |-> au.calls \o lookup]
        ELSE [resp |-> [kind |-> "user", host |-> mtg.Host, url |-> au.url], err |-> NoErr,
              calls |-> au.calls \o lookup]

joinPersonalMeetingMsg(userID, mtg, o) ==
    LET lookup == <<[op |-> "GetUserInfo", user |-> userID, err |-> o.lookup]>>
        userInfo == UserInfo(userID)
        au == AuthenticatedURL(mtg, userInfo.ID, userInfo.Name, userInfo.Image192, o.sign)
    IN  IF o.lookup # NoErr THEN [resp |-> [NoBody EXCEPT !.kind = "empty"], err |-> o.lookup, calls |-> lookup]
        ELSE IF au.err # NoErr THEN [resp |-> [NoBody EXCEPT !.kind = "empty"], err |-> au.err, calls |-> lookup \o au.calls]
        ELSE [resp |-> [kind |-> "user", host |-> mtg.Host, url |-> au.url], err |-> NoErr,
              calls |-> lookup \o au.calls]

\* the switch without the case errInactiveAccount
IsCredentialErrorNoInactive(err) == err \in {errInvalidAuth, errMissingAuthToken}

\* a switch that treats every error as a credential error
IsCredentialErrorAny(err) == err # NoErr

\* case errInvalidAuth, errInactiveAccount, errMissingAuthToken
IsCredentialError(err) == err \in {errInvalidAuth, errInactiveAccount, errMissingAuthToken}

(***************************************************************************)
(* dispatchInvites.                                                        *)
(***************************************************************************)
\* a test of the matches that never sees an empty list
NobodyMentionedNever(matches) == FALSE

\* matches == nil: nobody was @-mentioned
NobodyMentioned(matches) == matches = <<>>

\* MeetingGenerator.New, then the mentions of the text
dispatchNew(i) ==
    /\ inv[i].pc = "dispatchInvites"
    /\ LET r == inv[i]
           b == r.req.body
       IN  \E roomName \in RoomNames, get \in GetResults(cfgStore, b.team_id) :
             LET n == New(b.team_id, b.team_domain, roomName, get)
                 r1 == [r EXCEPT !.meeting = n.mtg,
                                 !.calls = Append(@, [op |-> "Get", team |-> b.team_id, cfg |-> get.cfg, err |-> get.err])]
                 matches == FindAllMentions(b.text, 1)
             IN  inv' = [inv EXCEPT ![i] =
                     IF n.err # NoErr THEN Respond(r1, StatusInternalServerError, NoBody)
                     ELSE IF NobodyMentioned(matches)
                     THEN Respond(r1, StatusOK, [kind |-> "room", host |-> n.mtg.Host, url |-> n.mtg.URL])
                     ELSE [r1 EXCEPT !.matches = matches, !.pc = "token"]]
    /\ UNCHANGED <<cfgStore, tokenStore, oauth>>

\* TokenReader.GetFirstBotTokenForTeam(teamID): the stored token, "not_authed"
\* when there is none, or another error
TokenResults(store, teamID) ==
    {[token |-> store[teamID], err |-> IF store[teamID] = NoToken THEN errMissingAuthToken ELSE NoErr]}
      \cup {[token |-> NoToken, err |-> e] : e \in StoreErrors}

\* a test of the token reader's error that never sees "not_authed"
IsMissingTokenNever(err) == FALSE

\* case errMissingAuthToken of the switch on the token reader's error
IsMissingToken(err) == err = errMissingAuthToken

dispatchToken(i) ==
    /\ inv[i].pc = "token"
    /\ LET r == inv[i]
           teamID == r.req.body.team_id
       IN  \E t \in TokenResults(tokenStore, teamID) :
             LET r1 == [r EXCEPT !.calls = Append(@, [op |-> "GetFirstBotTokenForTeam", team |-> teamID, err |-> t.err])]
             IN  inv' = [inv EXCEPT ![i] =
                     IF IsMissingToken(t.err) THEN install(r1)
                     ELSE IF t.err # NoErr THEN Respond(r1, StatusInternalServerError, NoBody)
                     ELSE [r1 EXCEPT !.token = t.token, !.idx = 1, !.pc = "invite"]]
    /\ UNCHANGED <<cfgStore, tokenStore, oauth>>

\* one iteration of the loop over the matches
dispatchInvite(i) ==
    /\ inv[i].pc = "invite"
    /\ LET r == inv[i]
       IN  \E o \in InviteOutcomes :
             /\ r.meeting.AuthenticatedURL # "jwt" => o.sign = NoErr
             /\ LET s == sendPersonalizedInvite(r.req.body.user_id, r.matches[r.idx], r.meeting, o)
                    r1 == [r EXCEPT !.calls = @ \o s.calls]
                IN  inv' = [inv EXCEPT ![i] =
                        IF IsCredentialError(s.err) THEN install(r1)
                        ELSE [r1 EXCEPT !.idx = @ + 1,
                                        !.pc = IF r.idx = Len(r.matches) THEN "confirm" ELSE "invite"]]
    /\ UNCHANGED <<cfgStore, tokenStore, oauth>>

\* the response for the meeting initiator
dispatchConfirm(i) ==
    /\ inv[i].pc = "confirm"
    /\ LET r == inv[i]
       IN  \E o \in InviteOutcomes :
             /\ o.open = NoErr /\ o.post = NoErr
             /\ r.meeting.AuthenticatedURL # "jwt" => o.sign = NoErr
             /\ LET j == joinPersonalMeetingMsg(r.req.body.user_id, r.meeting, o)
                    r1 == [r EXCEPT !.calls = @ \o j.calls]
                IN  inv' = [inv EXCEPT ![i] =
                        IF IsCredentialError(j.err) THEN install(r1)
                        ELSE Respond(r1, StatusOK, j.resp)]
    /\ UNCHANGED <<cfgStore, tokenStore, oauth>>

\* the handler has returned (or the server has recovered its panic); the
\* goroutine serves the next request
Finish(i) ==
    /\ inv[i].pc \in {"done", "panic"}
    /\ inv' = [inv EXCEPT ![i] = Idle]
    /\ UNCHANGED <<cfgStore, tokenStore, oauth>>

\* command routing and server configuration: any request, with the command
\* texts made of the command words (which carry no mention)
Next ==
    \E i \in Serial :
        \/ Request(i)
        \/ configureServer(i)
        \/ dispatchNew(i)
        \/ Finish(i)

Spec == Init /\ [][Next]_vars

\* the invite dispatch: signed requests whose texts are made of mentions
NextInvite ==
    \E i \in Serial :
        \/ InviteRequest(i)
        \/ dispatchNew(i)
        \/ dispatchToken(i)
        \/ dispatchInvite(i)
        \/ dispatchConfirm(i)
        \/ Finish(i)

SpecInvite == Init /\ [][NextInvite]_vars


\* two requests of one workspace in progress at once: configureServer
\* invocations interleaved with the steps of DispatchInvites invocations.
\* The invocations share nothing but the stores, so one of them is given
\* every text and the other every text but the one with a mention.
ConcurrentTexts(i) ==
    {cServer \o <<SP>> \o cUrlX, cServer \o <<SP>> \o cDefault, <<>>}
        \cup (IF i \in Serial THEN {cMentionU1} ELSE {})

ConcurrentRequest(i) ==
    /\ inv[i].pc = "idle"
    /\ \E x \in ConcurrentTexts(i) :
         LET b == [text |-> x, team_id |-> "T1", team_domain |-> TeamDomain("T1"), user_id |-> cU9]
         IN  Jitsi(i, [ts |-> "1", sig |-> Sign(SlackSigningSecret, "1", b), body |-> b], TRUE, TRUE)
    /\ UNCHANGED <<cfgStore, tokenStore, oauth>>

NextConcurrent ==
    \E i \in Invocations :
        \/ ConcurrentRequest(i)
        \/ configureServer(i)
        \/ dispatchNew(i)
        \/ dispatchToken(i)
        \/ dispatchInvite(i)
        \/ dispatchConfirm(i)
        \/ Finish(i)

SpecConcurrent == Init /\ [][NextConcurrent]_vars


(***************************************************************************)
(* SlackOAuthHandlers.Auth.                                                *)
(***************************************************************************)
\* the longest raw query, in parameters
MaxQueryParams == 2

\* r.URL.RawQuery as its "&"-separated pairs; the key "%" stands for a pair
\* that cannot be unescaped
QueryKeys == {"code", "error", "%"}
QueryValues == {"c1", "c2"}
QueryPairs == [key : QueryKeys, value : QueryValues]
RawQueries == UNION {[1..n -> QueryPairs] : n \in 0..MaxQueryParams}

\* url.ParseQuery: the values of each key in order of appearance, and an
\* error when a pair cannot be unescaped
ParseQuery(raw) ==
    [values |-> [k \in {"code", "error"} |->
                    LET ps == SelectSeq(raw, LAMBDA p : p.key = k)
                    IN  [n \in DOMAIN ps |-> ps[n].value]],
     err |-> IF \E n \in DOMAIN raw : raw[n].key = "%" THEN "invalid URL escape" ELSE NoErr]

\* what the platform's token endpoint may answer to http.Get: a transport
\* error, a body that is not JSON, or an access response
AccessResponses ==
    [OK : BOOLEAN, AccessToken : {"xoxp-1"}, UserID : {"U9"}, TeamID : Teams,
     Bot : [BotUserID : {"B1"}, BotAccessToken : {"xoxb-1", "xoxb-2"}]]
ExchangeResults ==
    {[err |-> "get failed", decodeErr |-> NoErr, access |-> NoAccess],
     [err |-> NoErr, decodeErr |-> "invalid character", access |-> NoAccess]}
        \cup {[err |-> NoErr, decodeErr |-> NoErr, access |-> a] : a \in AccessResponses}

\* the record Auth hands to TokenWriter.Store
TokenData(access) ==
    [TeamID |-> access.TeamID, UserID |-> access.UserID, BotToken |-> access.Bot.BotAccessToken,
     BotUserID |-> access.Bot.BotUserID, AccessToken |-> access.AccessToken]

\* TokenWriter.Store(data): the store with the workspace's token, or an error
\* and the store as it was
StoreResults(store, data) ==
    {[store |-> [store EXCEPT ![data.TeamID] = data.BotToken], err |-> NoErr]}
        \cup {[store |-> store, err |-> e] : e \in StoreErrors}

AppID == "A1"
\* fmt.Sprintf("https://slack.com/app_redirect?app=%s", o.AppID)
Redirect == <<"https://slack.com/app_redirect?app=", AppID>>

\* w.WriteHeader(http.StatusInternalServerError); return
AuthFail(r) == [r EXCEPT !.pc = "done", !.status = Append(@, StatusInternalServerError)]

\* the checks of the parsed query: no error parameter, exactly one code
QueryAccepted(params) ==
    /\ params.err = NoErr
    /\ params.values["error"] = <<>>
    /\ Len(params.values["code"]) = 1

\* a check of the exchange that does not look at the response's ok field
ExchangeAcceptedNotOK(x) == x.err = NoErr /\ x.decodeErr = NoErr

\* the checks of the exchange: sent, decoded, and the response reports ok
ExchangeAccepted(x) == x.err = NoErr /\ x.decodeErr = NoErr /\ x.access.OK

\* the callback arrives: the query is parsed and validated
AuthValidate ==
    /\ oauth.pc = "idle"
    /\ \E raw \in RawQueries :
         LET params == ParseQuery(raw)
             r == [oauth EXCEPT !.query = raw, !.before = tokenStore,
                                !.calls = Append(@, [op |-> "ParseQuery", err |-> params.err])]
         IN  oauth' = IF QueryAccepted(params)
                      THEN [r EXCEPT !.pc = "exchange", !.code = params.values["code"][1]]
                      ELSE AuthFail(r)
    /\ UNCHANGED <<inv, cfgStore, tokenStore>>

\* http.Get of the access URL with the code, and the decoding of its answer
AuthExchange ==
    /\ oauth.pc = "exchange"
    /\ \E x \in ExchangeResults :
         LET get == <<[op |-> "http.Get", code |-> oauth.code, err |-> x.err]>>
             decode == IF x.err = NoErr THEN <<[op |-> "Decode", access |-> x.access, err |-> x.decodeErr]>> ELSE <<>>
             r == [oauth EXCEPT !.calls = @ \o get \o decode]
         IN  oauth' = IF ExchangeAccepted(x)
                      THEN [r EXCEPT !.pc = "persist", !.access = x.access]
                      ELSE AuthFail(r)
    /\ UNCHANGED <<inv, cfgStore, tokenStore>>

\* TokenWriter.Store and, when it succeeded, the redirect
AuthStore ==
    /\ oauth.pc = "persist"
    /\ LET data == TokenData(oauth.access)
       IN  \E w \in StoreResults(tokenStore, data) :
             LET r == [oauth EXCEPT !.calls = Append(@, [op |-> "Store", data |-> data, err |-> w.err])]
             IN  /\ tokenStore' = w.store
                 /\ oauth' = IF w.err # NoErr THEN AuthFail(r)
                              ELSE [r EXCEPT !.pc = "done", !.status = Append(@, StatusFound),
                                             !.location = Redirect]
    /\ UNCHANGED <<inv, cfgStore>>

\* the handler returns; the next callback may arrive
AuthFinish ==
    /\ oauth.pc = "done"
    /\ oauth' = AuthIdle
    /\ UNCHANGED <<inv, cfgStore, tokenStore>>

NextAuth ==
    \/ AuthValidate
    \/ AuthExchange
    \/ AuthStore
    \/ AuthFinish

SpecAuth == Init /\ [][NextAuth]_vars

(***************************************************************************)
(* Notions the properties are stated with.                                 *)
(***************************************************************************)
\* the calls of an invocation to the operations named in ops
CallsOf(r, ops) == SelectSeq(r.calls, LAMBDA c : c.op \in ops)

ConfigOps == {"Get", "Store", "Remove"}
ChatOps == {"GetUserInfo", "OpenConversation", "PostMessage"}
DownstreamOps == ConfigOps \cup ChatOps \cup {"GetFirstBotTokenForTeam", "CreateJWT"}

\* the request's body was read by handleRequestValidation
BodyRead(r) == \E k \in DOMAIN r.calls : r.calls[k].op = "ReadAll" /\ r.calls[k].ok

\* the request fails authentication: a header is missing or empty, or the
\* signature is not the HMAC of the secret, the timestamp and the body
Unauthenticated(r) ==
    \/ r.req.ts = ""
    \/ r.req.sig = <<>>
    \/ BodyRead(r) /\ r.req.sig # <<"v0=", <<SlackSigningSecret, <<"v0:", r.req.ts, ":", r.req.body>>>>>>

\* C1: a request whose timestamp or signature header is missing or empty, or
\* whose signature does not validate, is answered 401 and nothing else
\* happens for it: no routing, no store access, no token read, no signing,
\* no chat-platform call.
C1_UnauthenticatedIs401 ==
    \A i \in Invocations :
        LET r == inv[i]
        IN  r.pc # "idle" /\ Unauthenticated(r) =>
              /\ r.pc = "done"
              /\ r.status = <<StatusUnauthorized>>
              /\ r.body = NoBody
              /\ r.intent = "none"
              /\ r.meeting = EmptyMeeting
              /\ CallsOf(r, DownstreamOps \cup {"ParseForm"}) = <<>>

\* a request with both headers whose signature was made with another key
C1_Witness ==
    \E i \in Invocations :
        LET r == inv[i]
        IN  /\ r.pc = "done"
            /\ r.req.ts # "" /\ r.req.sig = Sign("other", r.req.ts, r.req.body)
            /\ BodyRead(r)
            /\ r.status = <<StatusUnauthorized>>
            /\ HasPrefix(r.req.body.text, cServer)

\* text starts with the literal lit
StartsWith(text, lit) ==
    Len(text) >= Len(lit) /\ \A k \in 1..Len(lit) : text[k] = lit[k]

\* the whitespace-delimited tokens of a text
RECURSIVE FieldsFrom(_, _, _)
FieldsFrom(s, k, cur) ==
    IF k > Len(s) THEN (IF cur = <<>> THEN <<>> ELSE <<cur>>)
    ELSE IF s[k] \in Whitespace
         THEN (IF cur = <<>> THEN <<>> ELSE <<cur>>) \o FieldsFrom(s, k + 1, <<>>)
         ELSE FieldsFrom(s, k + 1, Append(cur, s[k]))

Fields(s) == FieldsFrom(s, 1, <<>>)

SecondTokenIsDefault(text) == Len(Fields(text)) >= 2 /\ Fields(text)[2] = cDefault

\* the request passed validation and its form was parsed
Validated(r) ==
    /\ ~Unauthenticated(r)
    /\ \E k \in DOMAIN r.calls : r.calls[k].op = "ParseForm" /\ r.calls[k].ok

\* C2: every validated command text is routed to exactly one intent, in
\* priority order: Help for the prefix "help", else ConfigureServer for the
\* prefix "server", else DispatchInvites (the empty text included); Help and
\* ConfigureServer never build a meeting, read the token store or contact
\* the chat platform.
C2_RoutesToOneIntent ==
    \A i \in Invocations :
        LET r == inv[i]
            text == r.req.body.text
        IN  r.pc # "idle" /\ Validated(r) =>
              /\ StartsWith(text, cHelp) => r.intent = "help"
              /\ ~StartsWith(text, cHelp) /\ StartsWith(text, cServer) => r.intent = "configureServer"
              /\ ~StartsWith(text, cHelp) /\ ~StartsWith(text, cServer) => r.intent = "dispatchInvites"
              /\ r.intent = "help" =>
                    /\ r.pc = "done" /\ r.status = <<StatusOK>> /\ r.body.kind = "help"
                    /\ CallsOf(r, DownstreamOps) = <<>>
              /\ r.intent \in {"help", "configureServer"} =>
                    /\ r.meeting = EmptyMeeting
                    /\ CallsOf(r, DownstreamOps \ {"Store", "Remove"}) = <<>>
                    /\ r.body.kind \notin {"room", "user", "install", "empty"}
              /\ r.intent = "configureServer" => r.body.kind # "help"
              /\ r.intent = "dispatchInvites" =>
                    /\ CallsOf(r, {"Store", "Remove"}) = <<>>
                    /\ r.body.kind \notin {"help", "defaulted", "instruct", "configured"}
                    /\ r.pc = "done" => CallsOf(r, {"Get"}) # <<>>

\* the empty text was dispatched as an invite to the channel
C2_Witness ==
    \E i \in Invocations :
        LET r == inv[i]
        IN  /\ r.pc = "done" /\ Validated(r)
            /\ r.req.body.text = <<>>
            /\ r.intent = "dispatchInvites" /\ r.body.kind = "room"

\* C3: a text routed to ConfigureServer whose second token is not "default"
\* and that has no bracketed URL token right after "server" is answered with
\* the instruction to supply a proper host, HTTP 200, and neither Store nor
\* Remove is called.
C3_NoHostInstructs ==
    \A i \in Invocations :
        LET r == inv[i]
            text == r.req.body.text
        IN  /\ r.intent = "configureServer" /\ r.pc \in {"done", "panic"}
            /\ ~SecondTokenIsDefault(text)
            /\ ServerConfigSubmatch(text) = <<>>
            => /\ r.status = <<StatusOK>>
               /\ r.body.kind = "instruct"
               /\ CallsOf(r, {"Store", "Remove"}) = <<>>

\* C4: when the second whitespace-delimited token of the text is "default",
\* configureServer calls Remove for the calling workspace and nothing else on
\* the store, and answers 200 when Remove succeeds and 500 when it fails.
C4_DefaultRemoves ==
    \A i \in Invocations :
        LET r == inv[i]
            text == r.req.body.text
            cs == CallsOf(r, {"Store", "Remove"})
        IN  /\ r.intent = "configureServer" /\ r.pc \in {"done", "panic"}
            /\ SecondTokenIsDefault(text)
            => /\ Len(cs) = 1
               /\ cs[1].op = "Remove" /\ cs[1].team = r.req.body.team_id
               /\ r.status = <<IF cs[1].err = NoErr THEN StatusOK ELSE StatusInternalServerError>>

\* a host that starts with http:// or https:// and has no delimiter at
\* either end
ProperHost(h) ==
    /\ StartsWith(h, <<"h", "t", "t", "p", ":", "/", "/">>)
         \/ StartsWith(h, <<"h", "t", "t", "p", "s", ":", "/", "/">>)
    /\ h[1] \notin {"<", ">"} /\ h[Len(h)] \notin {"<", ">"}

\* C5: when a bracketed URL token follows "server", configureServer calls
\* Store exactly once, with the calling workspace and the token without its
\* angle delimiters; and no override is ever stored whose host does not
\* start with http:// or https:// or that still has a delimiter at an end.
C5_StoresStrippedHost ==
    /\ \A i \in Invocations :
         LET r == inv[i]
             text == r.req.body.text
             cs == CallsOf(r, {"Store", "Remove"})
             token == ServerConfigSubmatch(text)[1]
         IN  /\ r.intent = "configureServer" /\ r.pc \in {"done", "panic"}
             /\ ServerConfigSubmatch(text) # <<>>
             => /\ Len(cs) = 1
                /\ cs[1].op = "Store" /\ cs[1].team = r.req.body.team_id
                /\ cs[1].host = SubSeq(token, 2, Len(token) - 1)
    /\ \A t \in Teams : cfgStore[t] # NoOverride => ProperHost(cfgStore[t])

(***************************************************************************)
(* Invite dispatch.                                                        *)
(***************************************************************************)
\* the users of the mention tokens <@U1> and <@U2|b> of a text, in order
RECURSIVE MentionIds(_)
MentionIds(text) ==
    IF text = <<>> THEN <<>>
    ELSE IF StartsWith(text, cMentionU1) THEN <<cU1>> \o MentionIds(Drop(text, Len(cMentionU1) + 1))
    ELSE IF StartsWith(text, cMentionU2) THEN <<cU2>> \o MentionIds(Drop(text, Len(cMentionU2) + 1))
    ELSE MentionIds(Drop(text, 2))

\* the users whose lookup an invocation has asked for, in order
Attempted(r) ==
    LET lookups == CallsOf(r, {"GetUserInfo"})
    IN  [k \in 1..Len(lookups) |-> lookups[k].user]

\* C6: with a credential and no credential-invalidation error, the
\* recipients an invite is attempted for are the mention tokens of the text:
\* one attempt per token, in order of appearance, a user mentioned twice
\* attempted twice.
C6_AttemptsFollowMentions ==
    \A i \in Invocations :
        LET r == inv[i]
            expected == MentionIds(r.req.body.text)
        IN  /\ r.pc = "invite" =>
                 r.idx <= Len(expected) /\ Attempted(r) = SubSeq(expected, 1, r.idx - 1)
            /\ r.pc = "confirm" => Attempted(r) = expected
            /\ r.pc = "done" /\ r.body.kind \in {"user", "empty"} =>
                 Attempted(r) = Append(expected, r.req.body.user_id)

\* one user mentioned twice, attempted twice
C6_Witness ==
    \E i \in Invocations :
        /\ inv[i].pc = "confirm"
        /\ Attempted(inv[i]) = <<cU1, cU1>>
        /\ \E k \in DOMAIN inv[i].calls :
              inv[i].calls[k].op = "PostMessage" /\ inv[i].calls[k].err = "ratelimited"

\* the result of the invocation's ServerConfigReader.Get, when it was called
HasGet(r) == CallsOf(r, {"Get"}) # <<>>
GetOf(r) == CallsOf(r, {"Get"})[1]

\* the part of a URL after its last '/'
LastSegment(url) ==
    LET slashes == {k \in 1..Len(url) : url[k] = "/"}
        last == CHOOSE k \in slashes : \A m \in slashes : m <= k
    IN  SubSeq(url, last + 1, Len(url))

\* the lower-cased team_domain of each workspace
LowerDomain(t) == IF t = "T1" THEN <<"a", "b">> ELSE <<"c">>

\* C7: New returns a Meeting whose URL is host/lowercase(teamName)/roomName
\* for a tenant-scoped config and host/roomName otherwise, host being the
\* configured server, so that the URL's last path segment is the RoomName;
\* when the configuration cannot be read it returns the error and an empty
\* Meeting.
C7_MeetingURL ==
    \A i \in Invocations :
        LET r == inv[i]
            g == GetOf(r)
            m == r.meeting
        IN  HasGet(r) =>
              /\ g.team = r.req.body.team_id
              /\ g.err # NoErr => m = EmptyMeeting /\ r.status = <<StatusInternalServerError>>
              /\ g.err = NoErr =>
                    /\ m.RoomName \in RoomNames
                    /\ m.Host = g.cfg.Server
                    /\ m.Host = IF cfgStore[g.team] = NoOverride THEN DefaultServer ELSE cfgStore[g.team]
                    /\ m.URL = IF g.cfg.TenantScopedURLs
                               THEN m.Host \o <<"/">> \o LowerDomain(g.team) \o <<"/">> \o m.RoomName
                               ELSE m.Host \o <<"/">> \o m.RoomName
                    /\ LastSegment(m.URL) = m.RoomName

\* a tenant-scoped meeting of the workspace "Ab" on the override host
C7_Witness ==
    \E i \in Invocations :
        /\ HasGet(inv[i]) /\ GetOf(inv[i]).err = NoErr /\ GetOf(inv[i]).cfg.TenantScopedURLs
        /\ inv[i].meeting.URL = <<"h", "t", "t", "p", "s", ":", "/", "/", "x", "/", "a", "b", "/", "r", "1">>

\* the URLs posted to recipients
PostedURLs(r) ==
    LET posts == CallsOf(r, {"PostMessage"})
    IN  [k \in 1..Len(posts) |-> posts[k].url]

\* C8: for a Meeting of a workspace without authenticated-URL support, the
\* capability returns the Meeting's base URL for every user and every call,
\* with no error, and CreateJWT is never called.
C8_PlainURL ==
    \A i \in Invocations :
        LET r == inv[i]
        IN  HasGet(r) /\ GetOf(r).err = NoErr /\ ~GetOf(r).cfg.AuthenticatedURLSupport =>
              /\ CallsOf(r, {"CreateJWT"}) = <<>>
              /\ \A k \in DOMAIN PostedURLs(r) : PostedURLs(r)[k] = r.meeting.URL
              /\ \A k \in DOMAIN r.calls :
                    r.calls[k].op = "GetUserInfo" /\ r.calls[k].err = NoErr /\ k < Len(r.calls)
                       => r.calls[k + 1].op = "OpenConversation"
              /\ r.body.kind = "user" => r.body.url = r.meeting.URL
              /\ r.pc = "done" /\ r.body.kind = "empty" =>
                    r.calls[Len(r.calls)].op = "GetUserInfo" /\ r.calls[Len(r.calls)].err # NoErr

\* two recipients and the caller got the base URL
C8_Witness ==
    \E i \in Invocations :
        LET r == inv[i]
        IN  /\ HasGet(r) /\ GetOf(r).err = NoErr /\ ~GetOf(r).cfg.AuthenticatedURLSupport
            /\ r.pc = "done" /\ r.body.kind = "user"
            /\ Len(PostedURLs(r)) >= 2
            /\ \E k, m \in DOMAIN r.calls :
                 /\ r.calls[k].op = "PostMessage" /\ r.calls[m].op = "PostMessage"
                 /\ r.calls[k].channel # r.calls[m].channel

\* the URL the capability returns for a claim set it got signed
SignedURL(r, input) ==
    r.meeting.URL \o <<"?", "j", "w", "t", "=">> \o CreateJWT(input)

\* C9: for a Meeting with authenticated-URL support, each call of the
\* capability submits to CreateJWT the workspace's tenant ID and name, the
\* looked-up user's ID, name and avatar and the Meeting's RoomName as room
\* claim, and returns the base URL, "?jwt=" and the token; all users of one
\* invocation get the same room claim; a signing failure is an error with no
\* URL.
C9_SignedURL ==
    \A i \in Invocations :
        LET r == inv[i]
            c == r.calls
        IN  HasGet(r) /\ GetOf(r).err = NoErr /\ GetOf(r).cfg.AuthenticatedURLSupport =>
              /\ \A k \in DOMAIN c :
                    c[k].op = "GetUserInfo" /\ c[k].err = NoErr =>
                       /\ k < Len(c)
                       /\ c[k + 1].op = "CreateJWT"
                       /\ c[k + 1].input =
                             [TenantID |-> r.req.body.team_id, TenantName |-> r.req.body.team_domain,
                              RoomClaim |-> r.meeting.RoomName, UserID |-> c[k].user,
                              UserName |-> UserInfo(c[k].user).Name,
                              AvatarURL |-> UserInfo(c[k].user).Image192]
              /\ \A k \in DOMAIN c :
                    c[k].op = "CreateJWT" =>
                       /\ k > 1 /\ c[k - 1].op = "GetUserInfo" /\ c[k - 1].err = NoErr
                       /\ c[k].input.RoomClaim = r.meeting.RoomName
                       /\ c[k].err # NoErr /\ k < Len(c) => c[k + 1].op = "GetUserInfo"
              /\ \A k \in DOMAIN c :
                    c[k].op = "PostMessage" =>
                       /\ k > 2 /\ c[k - 2].op = "CreateJWT" /\ c[k - 2].err = NoErr
                       /\ c[k].url = SignedURL(r, c[k - 2].input)
              /\ r.body.kind = "user" =>
                    /\ c[Len(c)].op = "CreateJWT" /\ c[Len(c)].err = NoErr
                    /\ c[Len(c)].input.UserID = r.req.body.user_id
                    /\ r.body.url = SignedURL(r, c[Len(c)].input)
              /\ r.pc = "done" /\ c[Len(c)].op = "CreateJWT" /\ c[Len(c)].err # NoErr =>
                    r.body.url = <<>>

\* a recipient and the caller got signed URLs of their own, after a signing
\* failure for another recipient
C9_Witness ==
    \E i \in Invocations :
        LET r == inv[i]
        IN  /\ HasGet(r) /\ GetOf(r).err = NoErr /\ GetOf(r).cfg.AuthenticatedURLSupport
            /\ r.pc = "done" /\ r.body.kind = "user"
            /\ \E k \in DOMAIN r.calls :
                 r.calls[k].op = "PostMessage" /\ r.calls[k].url # r.body.url
            /\ \E k \in DOMAIN r.calls : r.calls[k].op = "CreateJWT" /\ r.calls[k].err # NoErr

\* C10: a DispatchInvites invocation whose text has no mention token never
\* queries the token store, the chat platform or the token signer; once the
\* Meeting is built it answers 200 with the channel-wide message that
\* carries the Meeting's base URL.
C10_NoMentionNoLookup ==
    \A i \in Invocations :
        LET r == inv[i]
        IN  r.intent = "dispatchInvites" /\ MentionIds(r.req.body.text) = <<>> =>
              /\ r.pc \in {"dispatchInvites", "done"}
              /\ CallsOf(r, ChatOps \cup {"GetFirstBotTokenForTeam", "CreateJWT"}) = <<>>
              /\ HasGet(r) /\ GetOf(r).err = NoErr =>
                    /\ r.pc = "done" /\ r.status = <<StatusOK>>
                    /\ r.body = [kind |-> "room", host |-> r.meeting.Host, url |-> r.meeting.URL]
                    /\ r.meeting.URL # <<>>

\* a text of blanks was answered with the channel-wide message
C10_Witness ==
    \E i \in Invocations :
        LET r == inv[i]
        IN  /\ r.intent = "dispatchInvites" /\ r.pc = "done"
            /\ r.req.body.text = <<" ", " ">>
            /\ r.body.kind = "room" /\ r.status = <<StatusOK>>

\* the error strings of the chat platform that signal an invalid credential
CredentialErrors == {"invalid_auth", "account_inactive", "not_authed"}

\* the positions of the calls of an invocation that failed with such an error
CredentialFailures(r) ==
    {k \in DOMAIN r.calls : r.calls[k].op \in ChatOps \cup {"CreateJWT"} /\ r.calls[k].err \in CredentialErrors}

\* the token reader's answer, when it was asked
HasTokenRead(r) == CallsOf(r, {"GetFirstBotTokenForTeam"}) # <<>>
TokenReadOf(r) == CallsOf(r, {"GetFirstBotTokenForTeam"})[1]

\* C11: an invocation with at least one mention for a workspace without a
\* stored credential answers with the install prompt and attempts no
\* delivery: no user lookup, no signing, no open-channel, no post-message.
C11_NoCredentialInstallPrompt ==
    \A i \in Invocations :
        LET r == inv[i]
        IN  /\ r.intent = "dispatchInvites"
            /\ MentionIds(r.req.body.text) # <<>>
            /\ tokenStore[r.req.body.team_id] = NoToken
            /\ HasTokenRead(r) /\ TokenReadOf(r).err = "not_authed"
            => /\ r.pc = "done"
               /\ r.status = <<StatusOK>>
               /\ r.body.kind = "install"
               /\ CallsOf(r, ChatOps \cup {"CreateJWT"}) = <<>>

\* the workspace T2, which has no credential, mentioned two users
C11_Witness ==
    \E i \in Invocations :
        LET r == inv[i]
        IN  /\ r.pc = "done" /\ r.body.kind = "install"
            /\ r.req.body.team_id = "T2"
            /\ Len(MentionIds(r.req.body.text)) = 2
            /\ HasTokenRead(r) /\ TokenReadOf(r).err = "not_authed"

\* C12: a credential-invalidation error (invalid_auth, account_inactive,
\* not_authed) of recipient k's invite, or of the caller's confirmation, is
\* the last call of the invocation: nothing is called for a later recipient
\* or for the caller, and the answer is the install prompt. Recipients are
\* processed one after another: the lookups made are always the first
\* mentions, in order.
C12_CredentialErrorStops ==
    \A i \in Invocations :
        LET r == inv[i]
            expected == Append(MentionIds(r.req.body.text), r.req.body.user_id)
        IN  /\ \A k \in CredentialFailures(r) :
                 /\ k = Len(r.calls)
                 /\ r.pc = "done"
                 /\ r.status = <<StatusOK>>
                 /\ r.body.kind = "install"
            /\ Len(Attempted(r)) <= Len(expected)
            /\ Attempted(r) = SubSeq(expected, 1, Len(Attempted(r)))

\* recipient 1 of 2 failed with account_inactive: recipient 2 was not tried
C12_Witness ==
    \E i \in Invocations :
        LET r == inv[i]
        IN  /\ r.pc = "done" /\ r.body.kind = "install"
            /\ Len(MentionIds(r.req.body.text)) = 2
            /\ Len(Attempted(r)) = 1
            /\ r.calls[Len(r.calls)].op = "PostMessage"
            /\ r.calls[Len(r.calls)].err = "account_inactive"

\* the caller's lookup and the derivation of the caller's URL succeeded
CallerServed(r) ==
    LET c == r.calls
        n == Len(c)
    IN  /\ n >= 2
        /\ \/ c[n].op = "GetUserInfo" /\ c[n].user = r.req.body.user_id /\ c[n].err = NoErr
           \/ /\ c[n].op = "CreateJWT" /\ c[n].err = NoErr
              /\ c[n - 1].op = "GetUserInfo" /\ c[n - 1].user = r.req.body.user_id

\* C13: an error of recipient k's invite that is not a credential error
\* stops nothing: the later recipients are attempted in order, each once,
\* k is not retried, and the invocation answers 200 with the caller's
\* "invitations sent" confirmation that carries the caller's own URL.
C13_OtherErrorContinues ==
    \A i \in Invocations :
        LET r == inv[i]
            mentions == MentionIds(r.req.body.text)
        IN  /\ r.pc = "done" /\ HasTokenRead(r) /\ TokenReadOf(r).err = NoErr
            /\ CredentialFailures(r) = {}
            => /\ Attempted(r) = Append(mentions, r.req.body.user_id)
               /\ r.status = <<StatusOK>>
               /\ CallerServed(r) =>
                    /\ r.body.kind = "user"
                    /\ r.body.host = r.meeting.Host
                    /\ r.body.url = IF r.meeting.AuthenticatedURL = "jwt"
                                    THEN SignedURL(r, r.calls[Len(r.calls)].input)
                                    ELSE r.meeting.URL

\* recipient 1 of 2 failed with another error; recipient 2 got the invite
\* and the caller the confirmation
C13_Witness ==
    \E i \in Invocations :
        LET r == inv[i]
            opens == CallsOf(r, {"OpenConversation"})
            posts == CallsOf(r, {"PostMessage"})
        IN  /\ r.pc = "done" /\ r.body.kind = "user"
            /\ Attempted(r) = <<cU1, cU2, cU9>>
            /\ Len(opens) = 2 /\ opens[1].err = "ratelimited"
            /\ Len(posts) = 1 /\ posts[1].err = NoErr

\* the positions of the calls in which the infrastructure failed: the
\* server-configuration read, the token read (other than "not_authed") and
\* the token signer
FatalFailures(r) ==
    {k \in DOMAIN r.calls :
        \/ r.calls[k].op = "Get" /\ r.calls[k].err # NoErr
        \/ r.calls[k].op = "GetFirstBotTokenForTeam" /\ r.calls[k].err \notin {NoErr, "not_authed"}
        \/ r.calls[k].op = "CreateJWT" /\ r.calls[k].err # NoErr}

\* C14: a failure of the server-configuration read, of the token read with
\* an error other than "not_authed", or of the token signer aborts the
\* invocation: the failed call is its last call, and its answer is 500
\* with no body.
C14_FatalFailureIs500 ==
    \A i \in Invocations :
        LET r == inv[i]
        IN  \A k \in FatalFailures(r) :
                /\ k = Len(r.calls)
                /\ r.pc = "done" => r.status = <<StatusInternalServerError>> /\ r.body = NoBody

\* C15: every answer is a success that carries the meeting URL, or one of
\* 401 without body, a plain text with 200, the install prompt, 500 without
\* body; a 200 is never written with an empty body or without the URL.
C15_ResponseShapes ==
    \A i \in Invocations :
        LET r == inv[i]
        IN  r.pc = "done" =>
              \/ r.status = <<StatusUnauthorized>> /\ r.body = NoBody
              \/ r.status = <<StatusInternalServerError>> /\ r.body = NoBody
              \/ r.status = <<StatusOK>> /\ r.body.kind \in {"help", "instruct", "defaulted", "configured", "install"}
              \/ r.status = <<StatusOK>> /\ r.body.kind \in {"room", "user"} /\ r.body.url # <<>>

\* C17: the calls of one invite are the user lookup, the derivation of the
\* user's URL, the opening of the private channel and the post, in that
\* order and each only after the one before succeeded; the URL posted is
\* the one derived for that recipient, and after a failed derivation
\* nothing is opened or posted.
C17_InviteStepOrder ==
    \A i \in Invocations :
        LET r == inv[i]
            c == r.calls
            jwt == r.meeting.AuthenticatedURL = "jwt"
            \* position k holds the successful end of the derivation for user u
            Derived(k, u) ==
                IF jwt
                THEN /\ k > 1
                     /\ c[k].op = "CreateJWT" /\ c[k].err = NoErr /\ c[k].input.UserID = u
                     /\ c[k - 1].op = "GetUserInfo" /\ c[k - 1].err = NoErr /\ c[k - 1].user = u
                ELSE /\ k > 0
                     /\ c[k].op = "GetUserInfo" /\ c[k].err = NoErr /\ c[k].user = u
        IN  \A k \in DOMAIN c :
              /\ c[k].op = "OpenConversation" => Derived(k - 1, c[k].user)
              /\ c[k].op = "PostMessage" =>
                    /\ k > 2
                    /\ c[k - 1].op = "OpenConversation" /\ c[k - 1].err = NoErr
                    /\ c[k].channel = Channel(c[k - 1].user).ID
                    /\ Derived(k - 2, c[k - 1].user)
                    /\ c[k].url = IF jwt THEN SignedURL(r, c[k - 2].input) ELSE r.meeting.URL
              /\ c[k].op = "CreateJWT" =>
                    /\ c[k - 1].op = "GetUserInfo" /\ c[k - 1].err = NoErr
                    /\ c[k].err # NoErr /\ k < Len(c) =>
                          c[k + 1].op \notin {"OpenConversation", "PostMessage"}
              /\ c[k].op \in ChatOps /\ c[k].err # NoErr /\ k < Len(c) =>
                    c[k + 1].op = "GetUserInfo"

\* the derivation failed for the first recipient, who got no message, and
\* the second recipient got the URL signed for them
C17_Witness ==
    \E i \in Invocations :
        LET r == inv[i]
            c == r.calls
            posts == CallsOf(r, {"PostMessage"})
        IN  /\ r.meeting.AuthenticatedURL = "jwt"
            /\ \E k \in DOMAIN c : c[k].op = "CreateJWT" /\ c[k].err # NoErr /\ c[k].input.UserID = cU1
            /\ Len(posts) = 1
            /\ posts[1].channel = Channel(cU2).ID /\ posts[1].err = NoErr
            /\ posts[1].url # r.meeting.URL

\* the users for whom CreateJWT was called
SignedFor(r) ==
    LET s == CallsOf(r, {"CreateJWT"})
    IN  [k \in DOMAIN s |-> s[k].input.UserID]

\* every call of the invocation that has an outcome succeeded
AllSucceeded(r) ==
    \A k \in DOMAIN r.calls :
        IF r.calls[k].op \in {"ReadAll", "ParseForm"} THEN r.calls[k].ok ELSE r.calls[k].err = NoErr

\* C18: building the Meeting calls CreateJWT for nobody; the signer is
\* called at most once per mention and once for the caller, each time right
\* after that user's lookup; when the workspace has authenticated-URL
\* support and every call succeeds, it is called exactly once per mention,
\* in order, and once for the caller.
C18_SignerCalls ==
    \A i \in Invocations :
        LET r == inv[i]
            c == r.calls
            mentions == MentionIds(r.req.body.text)
        IN  /\ r.pc = "token" => SignedFor(r) = <<>>
            /\ r.intent = "dispatchInvites" => Len(SignedFor(r)) <= Len(mentions) + 1
            /\ \A k \in DOMAIN c :
                  c[k].op = "CreateJWT" =>
                     /\ k > 1 /\ c[k - 1].op = "GetUserInfo" /\ c[k - 1].err = NoErr
                     /\ c[k - 1].user = c[k].input.UserID
            /\ /\ r.pc = "done" /\ mentions # <<>> /\ AllSucceeded(r)
               /\ HasGet(r) /\ GetOf(r).cfg.AuthenticatedURLSupport
               => SignedFor(r) = Append(mentions, r.req.body.user_id)

\* two mentions, every call succeeded: three tokens were signed
C18_Witness ==
    \E i \in Invocations :
        LET r == inv[i]
        IN  /\ r.pc = "done" /\ r.body.kind = "user" /\ AllSucceeded(r)
            /\ HasGet(r) /\ GetOf(r).cfg.AuthenticatedURLSupport
            /\ Len(MentionIds(r.req.body.text)) = 2
            /\ Len(SignedFor(r)) = 3

\* C20: every invocation ends normally with exactly one status written, for
\* every command text and every outcome of the collaborators: no path ends
\* without an answer, and none writes a second status.
C20_OneStatus ==
    \A i \in Invocations :
        LET r == inv[i]
        IN  /\ r.pc # "panic"
            /\ Len(r.status) <= 1
            /\ r.pc = "done" => Len(r.status) = 1
            /\ r.pc \notin {"idle", "done"} => r.status = <<>>

\* the URLs an invocation handed out: posted to recipients, answered to the caller
HandedOut(r) ==
    {r.calls[k].url : k \in {n \in DOMAIN r.calls : r.calls[n].op = "PostMessage"}}
        \cup (IF r.body.kind \in {"room", "user"} THEN {r.body.url} ELSE {})

\* C19: a DispatchInvites invocation reads the server configuration once and
\* the token store at most once; whatever concurrent configureServer and
\* DispatchInvites invocations of the workspace do in between, every URL it
\* hands out has the host, tenant scoping, authentication mode and room
\* name of the configuration it read when it built its Meeting (the
\* channel-wide message carries the base URL in either mode), never the
\* room name or host of another invocation.
C19_FixedAtConstruction ==
    \A i \in Invocations :
        LET r == inv[i]
            m == r.meeting
        IN  /\ Len(CallsOf(r, {"Get"})) <= 1
            /\ Len(CallsOf(r, {"GetFirstBotTokenForTeam"})) <= 1
            /\ r.intent = "dispatchInvites" /\ r.pc \in {"token", "invite", "confirm", "done"} => HasGet(r)
            /\ HasGet(r) /\ GetOf(r).err = NoErr =>
                 LET cfg == GetOf(r).cfg
                     base == IF cfg.TenantScopedURLs
                             THEN cfg.Server \o <<"/">> \o LowerDomain(r.req.body.team_id) \o <<"/">> \o m.RoomName
                             ELSE cfg.Server \o <<"/">> \o m.RoomName
                 IN  /\ m.Host = cfg.Server
                     /\ m.URL = base
                     /\ m.AuthenticatedURL = IF cfg.AuthenticatedURLSupport THEN "jwt" ELSE "plain"
                     /\ \A k \in DOMAIN r.calls :
                          r.calls[k].op = "CreateJWT" => r.calls[k].input.RoomClaim = m.RoomName
                     /\ \A u \in HandedOut(r) :
                          /\ IF cfg.AuthenticatedURLSupport /\ r.body.kind # "room"
                             THEN \E k \in DOMAIN r.calls :
                                    /\ r.calls[k].op = "CreateJWT" /\ r.calls[k].err = NoErr
                                    /\ u = base \o <<"?", "j", "w", "t", "=">> \o CreateJWT(r.calls[k].input)
                             ELSE u = base
                          /\ \A j \in Invocations \ {i} :
                               inv[j].meeting # EmptyMeeting =>
                               /\ inv[j].meeting.RoomName # m.RoomName
                                    => ~HasPrefix(u, Slash(cfg.Server, inv[j].meeting.RoomName))
                               /\ inv[j].meeting.Host # m.Host
                                    => ~HasPrefix(u, inv[j].meeting.Host \o <<"/">>)

\* an invocation that built its Meeting on the default host has invited a
\* user and answered the caller after the workspace's host was changed,
\* while another invocation has answered with a Meeting on the new host
\* and another room name
C19_Witness ==
    \E i, j \in Invocations :
        /\ i # j
        /\ inv[i].pc = "done" /\ inv[i].body.kind = "user"
        /\ inv[i].meeting.Host = DefaultServer
        /\ CallsOf(inv[i], {"PostMessage"}) # <<>>
        /\ cfgStore["T1"] # NoOverride
        /\ inv[j].pc = "done" /\ inv[j].body.kind = "room"
        /\ inv[j].meeting.Host = cfgStore["T1"]
        /\ inv[j].meeting.RoomName # inv[i].meeting.RoomName

\* the calls the OAuth callback made, by name
AuthOps == [k \in DOMAIN oauth.calls |-> oauth.calls[k].op]

\* the positions of a key in a raw query
PositionsOf(raw, key) == {n \in DOMAIN raw : raw[n].key = key}

\* C16: the OAuth callback validates the query, exchanges the code,
\* persists and redirects in that order, each step only after the one
\* before succeeded: the exchange is called only for a query without an
\* error parameter and with exactly one code; Store is called only with
\* the fields of a decoded response that reports ok, and once; the answer
\* is 302 iff Store succeeded, and otherwise 500 with nothing persisted.
C16_AuthStepOrder ==
    LET c == oauth.calls
        n == Len(c)
    IN  /\ \E m \in 0..4 : AuthOps = SubSeq(<<"ParseQuery", "http.Get", "Decode", "Store">>, 1, m)
        /\ \A k \in 1..(n - 1) : c[k].err = NoErr
        /\ n >= 2 =>
              /\ PositionsOf(oauth.query, "error") = {}
              /\ \E p \in DOMAIN oauth.query :
                   /\ PositionsOf(oauth.query, "code") = {p}
                   /\ c[2].code = oauth.query[p].value
        /\ n = 4 =>
              /\ c[3].access.OK
              /\ c[4].data = [TeamID |-> c[3].access.TeamID, UserID |-> c[3].access.UserID,
                              BotToken |-> c[3].access.Bot.BotAccessToken,
                              BotUserID |-> c[3].access.Bot.BotUserID,
                              AccessToken |-> c[3].access.AccessToken]
        /\ oauth.pc # "done" => oauth.status = <<>> /\ (oauth.pc # "idle" => tokenStore = oauth.before)
        /\ oauth.pc = "done" =>
              IF n = 4 /\ c[4].err = NoErr
              THEN /\ oauth.status = <<StatusFound>>
                   /\ oauth.location = <<"https://slack.com/app_redirect?app=", "A1">>
                   /\ tokenStore = [oauth.before EXCEPT ![c[4].data.TeamID] = c[4].data.BotToken]
              ELSE /\ oauth.status = <<StatusInternalServerError>>
                   /\ oauth.location = <<>>
                   /\ tokenStore = oauth.before

\* the workspace T2 was installed: its bot token is stored and the browser
\* is redirected
C16_Witness ==
    /\ oauth.pc = "done" /\ oauth.status = <<StatusFound>>
    /\ oauth.before["T2"] = NoToken
    /\ tokenStore["T2"] = "xoxb-2"
    /\ Len(oauth.query) = 1

====
